---- MODULE Spec2Model ----
(***************************************************************************)
(* Model of the travel planner's two stateful cores:                       *)
(*   - the process-wide bearer token cache (src/src/utils.rs,              *)
(*     TOKEN_STORAGE / get_bearer_token), called by concurrent tasks;      *)
(*   - the streaming orchestration loop (src/src/main.rs, stream_handler). *)
(* Time is counted in whole seconds.                                       *)
(***************************************************************************)
EXTENDS Integers, Sequences, FiniteSets, TLC

\* ------------------------------------------------------------------ bounds
NumCallers == 2      \* concurrent tasks calling get_bearer_token
MaxCalls == 3        \* calls of get_bearer_token started in one run
MaxNow == 2          \* the clock runs from 0 to MaxNow
MaxSlack == 1        \* provider lifetimes reach Margin + MaxSlack
MaxRounds == 2       \* tool-resolution rounds counted before the counters saturate
MaxStream == 2       \* fragments one model stream yields at most
MaxFrags == 3        \* fragments whose identity the history keeps
MaxToolCalls == 2    \* tool-call requests in one Agent turn
HistoryLimit == 5    \* turns a Session retains
ChanCap == 1         \* chunks the response channel buffers
MaxSites == 2        \* sites one reply of the model lists
MaxResults == 2      \* results one text-search payload carries
MaxPhotos == 2       \* photos one text-search result carries
MaxMonth == 13       \* months tried run from 0 to MaxMonth
MaxDay == 32         \* days tried run from 0 to MaxDay

\* --------------------------------------------------------------- constants
Margin == 30         \* Duration::from_secs(30), utils.rs:170 and :179
Retries == 3         \* let mut retries = 3, site_seen.rs:107
DayLimit == 31       \* if day > 31, utils.rs:20
MonthLimit == 12     \* if month > 12, utils.rs:23
YearWidth == 4       \* {:04}, utils.rs:29
FieldWidth == 2      \* {:02}, utils.rs:29
U16Max == 65535      \* year: u16, utils.rs:14
U8Max == 255         \* month: u8, day: u8, utils.rs:15-16

Callers == 1..NumCallers
Identities == {"A", "B"}
Lifetimes == {0} \cup (Margin..(Margin + MaxSlack))
FailKinds == {"send", "status", "payload"}
None == [none |-> TRUE]

VARIABLES
    cache,      \* TOKEN_STORAGE content: None or [secret, expiry]
    readers,    \* tasks holding a read guard of the RwLock
    writer,     \* task holding the write guard, or 0
    now,        \* Instant::now()
    pc,         \* position of each task inside get_bearer_token
    ident,      \* client_id/client_secret pair of each task's current call
    result,     \* value returned by each task's last call
    exch,       \* log of the authentication exchanges issued so far
    started,    \* number of calls started
    waitedFor,  \* per task: latest exchange another task issued during its call
    myExch,     \* per task: exchange issued by its current call, or 0
    recheckAt   \* per task: instant of the re-check under the write guard, or -1

tokenVars == <<cache, readers, writer, now, pc, ident, result, exch, started,
               waitedFor, myExch, recheckAt>>

VARIABLES
    opc,        \* position of the spawned task in the loop of stream_handler
    session,    \* request.session / the session owned by the response stream
    streamLen,  \* items the current response_stream has yielded
    held,       \* gemini_response: fragments pulled and not yet sent
    chan,       \* chunks in the channel between tx and rx
    rx,         \* the receiving end: "open" or "dropped"
    produced,   \* history: fragments the model streams yielded as Ok
    sent,       \* history: chunks accepted by tx.send_data
    modelCalls, \* history: invocations of handle_request
    toolTurns,  \* history: completed Agent turns that requested tools
    fragErr,    \* history: some item of a model stream was an Err
    failure,    \* history: handle_request returned Err
    errSession, \* the session handed back with the Err of handle_request
    errorsSent, \* history: error values passed to tx.send_data
    running,    \* tool calls of the current turn still in flight
    completed,  \* tool calls of the current turn, in the order they finished
    outcome,    \* per tool call of the current turn: how it finished
    toolRuns    \* history: tool invocations started

toolVars == <<running, completed, outcome, toolRuns>>

orchVars == <<opc, session, streamLen, held, chan, rx, produced, sent,
              modelCalls, toolTurns, fragErr, failure, errSession, errorsSent,
              toolVars>>

VARIABLES
    spos,       \* position of the task inside get_site_seeing
    retries,    \* the local `retries`
    asks,       \* history: how each call of ask() ended
    sites,      \* the local `sites`: one record per site of the reply
    cursor,     \* index of the site the `for` loop handles next
    siteResult, \* value get_site_seeing returned
    imgIn,      \* input of the latest get_place_image_url call
    imgOut      \* value the latest get_place_image_url call returned

siteVars == <<spos, retries, asks, sites, cursor, siteResult, imgIn, imgOut>>

VARIABLES
    ppos,       \* position of the task inside plan_tour
    lookup,     \* per lookup future of the join!: its state or its outcome
    finished,   \* history: the lookups in the order they completed
    finalCalls, \* history: calls of the itinerary model
    planResult  \* value plan_tour returned

planVars == <<ppos, lookup, finished, finalCalls, planResult>>

VARIABLES
    dpos,       \* how far the Date round trip has come
    dIn,        \* arguments of Date::new
    dNew,       \* value Date::new returned
    dText,      \* value of to_yyyy_mm_dd, as a sequence of characters
    dParsed     \* value from_yyyy_mm_dd returned

dateVars == <<dpos, dIn, dNew, dText, dParsed>>

vars == <<tokenVars, orchVars, siteVars, planVars, dateVars>>

\* entry.expiry > Instant::now() + Duration::from_secs(30)
IsValid(c, t) == c # None /\ c.expiry > t + Margin

\* the secret an exchange hands out: unique per exchange, tagged by identity
Secret(k) == [serial |-> k, issuedFor |-> exch[k].for]

Ok(s) == [ok |-> TRUE, secret |-> s]
Err(kind) == [ok |-> FALSE, error |-> kind]
NoResult == [ok |-> FALSE, error |-> "none"]

InProgress(q) == pc[q] \in {"rlock", "rcheck", "wlock", "wcheck", "send", "body"}

TokenInit ==
    /\ cache = None
    /\ readers = {}
    /\ writer = 0
    /\ now = 0
    /\ pc = [p \in Callers |-> "idle"]
    /\ ident = [p \in Callers |-> "A"]
    /\ result = [p \in Callers |-> NoResult]
    /\ exch = <<>>
    /\ started = 0
    /\ waitedFor = [p \in Callers |-> 0]
    /\ myExch = [p \in Callers |-> 0]
    /\ recheckAt = [p \in Callers |-> -1]

\* a task enters get_bearer_token(client_id, client_secret)
Call(p, id) ==
    /\ pc[p] = "idle"
    /\ started < MaxCalls
    /\ started' = started + 1
    /\ pc' = [pc EXCEPT ![p] = "rlock"]
    /\ ident' = [ident EXCEPT ![p] = id]
    /\ result' = [result EXCEPT ![p] = NoResult]
    /\ waitedFor' = [waitedFor EXCEPT ![p] = 0]
    /\ myExch' = [myExch EXCEPT ![p] = 0]
    /\ recheckAt' = [recheckAt EXCEPT ![p] = -1]
    /\ UNCHANGED <<cache, readers, writer, now, exch>>
    /\ UNCHANGED <<orchVars, siteVars, planVars, dateVars>>

\* TOKEN_STORAGE.read().await resolves
ReadLock(p) ==
    /\ pc[p] = "rlock"
    /\ writer = 0
    /\ readers' = readers \cup {p}
    /\ pc' = [pc EXCEPT ![p] = "rcheck"]
    /\ UNCHANGED <<cache, writer, now, ident, result, exch, started,
                   waitedFor, myExch, recheckAt>>
    /\ UNCHANGED <<orchVars, siteVars, planVars, dateVars>>

\* variant without the fast path: every call goes on to the write guard
FastPathSkipsCache(p) ==
    /\ pc[p] = "rcheck"
    /\ readers' = readers \ {p}
    /\ pc' = [pc EXCEPT ![p] = "wlock"]
    /\ UNCHANGED <<cache, writer, now, ident, result, exch, started,
                   waitedFor, myExch, recheckAt>>
    /\ UNCHANGED <<orchVars, siteVars, planVars, dateVars>>

\* the check under the read guard: return the cached secret, or fall through
FastPath(p) ==
    /\ pc[p] = "rcheck"
    /\ readers' = readers \ {p}
    /\ IF IsValid(cache, now)
       THEN /\ pc' = [pc EXCEPT ![p] = "done"]
            /\ result' = [result EXCEPT ![p] = Ok(cache.secret)]
       ELSE /\ pc' = [pc EXCEPT ![p] = "wlock"]
            /\ UNCHANGED result
    /\ UNCHANGED <<cache, writer, now, ident, exch, started,
                   waitedFor, myExch, recheckAt>>
    /\ UNCHANGED <<orchVars, siteVars, planVars, dateVars>>

\* variant whose write guard does not exclude another writer
WriteLockNotExclusive(p) ==
    /\ pc[p] = "wlock"
    /\ readers = {}
    /\ writer' = p
    /\ pc' = [pc EXCEPT ![p] = "wcheck"]
    /\ UNCHANGED <<cache, readers, now, ident, result, exch, started,
                   waitedFor, myExch, recheckAt>>
    /\ UNCHANGED <<orchVars, siteVars, planVars, dateVars>>

\* TOKEN_STORAGE.write().await resolves
WriteLock(p) ==
    /\ pc[p] = "wlock"
    /\ writer = 0
    /\ readers = {}
    /\ writer' = p
    /\ pc' = [pc EXCEPT ![p] = "wcheck"]
    /\ UNCHANGED <<cache, readers, now, ident, result, exch, started,
                   waitedFor, myExch, recheckAt>>
    /\ UNCHANGED <<orchVars, siteVars, planVars, dateVars>>

\* variant without the re-check: whoever gets the write guard issues the POST
RecheckAlwaysRefreshes(p) ==
    /\ pc[p] = "wcheck"
    /\ recheckAt' = [recheckAt EXCEPT ![p] = now]
    /\ pc' = [pc EXCEPT ![p] = "send"]
    /\ exch' = Append(exch, [for |-> ident[p],
                             status |-> "pending", expiry |-> 0])
    /\ myExch' = [myExch EXCEPT ![p] = Len(exch) + 1]
    /\ waitedFor' = [q \in Callers |->
                        IF q # p /\ InProgress(q)
                        THEN Len(exch) + 1 ELSE waitedFor[q]]
    /\ UNCHANGED <<cache, readers, now, ident, started, result, writer>>
    /\ UNCHANGED <<orchVars, siteVars, planVars, dateVars>>

\* the re-check under the write guard; on a miss the POST is issued
Recheck(p) ==
    /\ pc[p] = "wcheck"
    /\ recheckAt' = [recheckAt EXCEPT ![p] = now]
    /\ IF IsValid(cache, now)
       THEN /\ pc' = [pc EXCEPT ![p] = "done"]
            /\ result' = [result EXCEPT ![p] = Ok(cache.secret)]
            /\ writer' = 0
            /\ UNCHANGED <<exch, waitedFor, myExch>>
       ELSE /\ pc' = [pc EXCEPT ![p] = "send"]
            /\ exch' = Append(exch, [for |-> ident[p],
                                     status |-> "pending", expiry |-> 0])
            /\ myExch' = [myExch EXCEPT ![p] = Len(exch) + 1]
            /\ waitedFor' = [q \in Callers |->
                                IF q # p /\ InProgress(q)
                                THEN Len(exch) + 1 ELSE waitedFor[q]]
            /\ UNCHANGED <<result, writer>>
    /\ UNCHANGED <<cache, readers, now, ident, started>>
    /\ UNCHANGED <<orchVars, siteVars, planVars, dateVars>>

\* variant that evicts the entry when the exchange fails
FailWithEvict(p, kind) ==
    /\ pc' = [pc EXCEPT ![p] = "done"]
    /\ result' = [result EXCEPT ![p] = Err(kind)]
    /\ exch' = [exch EXCEPT ![myExch[p]].status = "failed"]
    /\ writer' = 0
    /\ cache' = None
    /\ UNCHANGED <<readers, now, ident, started, waitedFor, myExch, recheckAt>>
    /\ UNCHANGED <<orchVars, siteVars, planVars, dateVars>>

\* variant that hands the error of a failed exchange to every waiting task
FailWithShared(p, kind) ==
    /\ pc' = [q \in Callers |->
                 IF q = p \/ pc[q] = "wlock" THEN "done" ELSE pc[q]]
    /\ result' = [q \in Callers |->
                     IF q = p \/ pc[q] = "wlock" THEN Err(kind) ELSE result[q]]
    /\ exch' = [exch EXCEPT ![myExch[p]].status = "failed"]
    /\ writer' = 0
    /\ UNCHANGED <<cache, readers, now, ident, started,
                   waitedFor, myExch, recheckAt>>
    /\ UNCHANGED <<orchVars, siteVars, planVars, dateVars>>

\* the guard is dropped when the function returns with `?`
FailWith(p, kind) ==
    /\ pc' = [pc EXCEPT ![p] = "done"]
    /\ result' = [result EXCEPT ![p] = Err(kind)]
    /\ exch' = [exch EXCEPT ![myExch[p]].status = "failed"]
    /\ writer' = 0
    /\ UNCHANGED <<cache, readers, now, ident, started,
                   waitedFor, myExch, recheckAt>>
    /\ UNCHANGED <<orchVars, siteVars, planVars, dateVars>>

\* .send().await? fails, or .error_for_status()? rejects the status
SendFail(p, kind) ==
    /\ pc[p] = "send"
    /\ kind \in {"send", "status"}
    /\ FailWith(p, kind)

\* the response head arrived with a success status
SendOk(p) ==
    /\ pc[p] = "send"
    /\ pc' = [pc EXCEPT ![p] = "body"]
    /\ UNCHANGED <<cache, readers, writer, now, ident, result, exch, started,
                   waitedFor, myExch, recheckAt>>
    /\ UNCHANGED <<orchVars, siteVars, planVars, dateVars>>

\* resp.json().await? fails: malformed payload
BodyFail(p) ==
    /\ pc[p] = "body"
    /\ FailWith(p, "payload")

\* variant that stores the declared lifetime instead of an absolute expiry
StoreTokenNoClock(p, life) ==
    /\ pc[p] = "body"
    /\ cache' = [secret |-> Secret(myExch[p]), expiry |-> life]
    /\ exch' = [exch EXCEPT ![myExch[p]].status = "ok",
                            ![myExch[p]].expiry = life]
    /\ pc' = [pc EXCEPT ![p] = "done"]
    /\ result' = [result EXCEPT ![p] = Ok(Secret(myExch[p]))]
    /\ writer' = 0
    /\ UNCHANGED <<readers, now, ident, started, waitedFor, myExch, recheckAt>>
    /\ UNCHANGED <<orchVars, siteVars, planVars, dateVars>>

\* the payload parsed: store the entry and return the secret
StoreToken(p, life) ==
    /\ pc[p] = "body"
    /\ cache' = [secret |-> Secret(myExch[p]), expiry |-> now + life]
    /\ exch' = [exch EXCEPT ![myExch[p]].status = "ok",
                            ![myExch[p]].expiry = now + life]
    /\ pc' = [pc EXCEPT ![p] = "done"]
    /\ result' = [result EXCEPT ![p] = Ok(Secret(myExch[p]))]
    /\ writer' = 0
    /\ UNCHANGED <<readers, now, ident, started, waitedFor, myExch, recheckAt>>
    /\ UNCHANGED <<orchVars, siteVars, planVars, dateVars>>

\* the clock advances
Tick ==
    /\ now < MaxNow
    /\ now' = now + 1
    /\ UNCHANGED <<cache, readers, writer, pc, ident, result, exch, started,
                   waitedFor, myExch, recheckAt>>
    /\ UNCHANGED <<orchVars, siteVars, planVars, dateVars>>

\* the caller has consumed the result and may call again
Return(p) ==
    /\ pc[p] = "done"
    /\ started < MaxCalls
    /\ pc' = [pc EXCEPT ![p] = "idle"]
    /\ ident' = [ident EXCEPT ![p] = "A"]
    /\ result' = [result EXCEPT ![p] = NoResult]
    /\ waitedFor' = [waitedFor EXCEPT ![p] = 0]
    /\ myExch' = [myExch EXCEPT ![p] = 0]
    /\ recheckAt' = [recheckAt EXCEPT ![p] = -1]
    /\ UNCHANGED <<cache, readers, writer, now, exch, started>>
    /\ UNCHANGED <<orchVars, siteVars, planVars, dateVars>>

TokenNext ==
    \/ \E p \in Callers, id \in Identities : Call(p, id)
    \/ \E p \in Callers : ReadLock(p)
    \/ \E p \in Callers : FastPath(p)
    \/ \E p \in Callers : WriteLock(p)
    \/ \E p \in Callers : Recheck(p)
    \/ \E p \in Callers, kind \in FailKinds : SendFail(p, kind)
    \/ \E p \in Callers : SendOk(p)
    \/ \E p \in Callers : BodyFail(p)
    \/ \E p \in Callers, life \in Lifetimes : StoreToken(p, life)
    \/ \E p \in Callers : Return(p)
    \/ Tick

\* ---------------------------------------------------- stream_handler
Sat(n, max) == IF n < max THEN n + 1 ELSE max

UserTurn == [role |-> "User", calls |-> 0, results |-> <<>>]
AgentTurn(n) == [role |-> "Agent", calls |-> n, results |-> <<>>]
ToolResultTurn(rs) == [role |-> "ToolResult", calls |-> 0, results |-> rs]

\* how a tool invocation ends: a result, or one of the error kinds
ToolErrors == {"provider", "auth", "args", "unknown"}
ToolOutcomes == {"ok"} \cup ToolErrors
NoOutcomes == [i \in 1..MaxToolCalls |-> "none"]

\* Session::add_chat: append, dropping the oldest turn beyond the limit
AddTurn(ses, t) ==
    IF Len(ses) < HistoryLimit THEN Append(ses, t) ELSE Append(Tail(ses), t)

\* Session::update: the first fragment of a stream opens an Agent turn, the
\* parts of the following fragments extend it
UpdateSession(ses, fresh, n) ==
    IF fresh
    THEN AddTurn(ses, AgentTurn(n))
    ELSE [ses EXCEPT ![Len(ses)] = AgentTurn(ses[Len(ses)].calls + n)]

\* get_last_chat().unwrap().has_function_call()
HasFunctionCall(ses) ==
    ses[Len(ses)].role = "Agent" /\ ses[Len(ses)].calls > 0

\* format!("{response}{CHUNK_SEPERATOR}") of the serialized parts of a fragment
Chunk(f) == [kind |-> "data", frag |-> f]
ErrorChunk == [kind |-> "error", frag |-> 0]

\* histories keep the fragments that carry an identity
Record(h, x) == IF x.frag # 0 \/ x.kind = "error" THEN Append(h, x) ELSE h

OrchInit ==
    /\ opc = "AwaitingModel"
    /\ session = <<UserTurn>>
    /\ streamLen = 0
    /\ held = <<>>
    /\ chan = <<>>
    /\ rx = "open"
    /\ produced = <<>>
    /\ sent = <<>>
    /\ modelCalls = 0
    /\ toolTurns = 0
    /\ fragErr = FALSE
    /\ failure = FALSE
    /\ errSession = <<>>
    /\ errorsSent = 0
    /\ running = {}
    /\ completed = <<>>
    /\ outcome = NoOutcomes
    /\ toolRuns = 0

\* line 35: handle_request(request.session) is invoked
HandleRequest ==
    /\ opc = "AwaitingModel"
    /\ modelCalls' = Sat(modelCalls, MaxRounds + 1)
    /\ opc' = IF HasFunctionCall(session) THEN "ExecutingTools" ELSE "Asking"
    /\ UNCHANGED <<session, streamLen, held, chan, rx, produced, sent,
                   toolTurns, fragErr, failure, errSession, errorsSent>>
    /\ UNCHANGED <<tokenVars, toolVars, siteVars, planVars, dateVars>>

\* inside handle_request: every tool call of the last turn is started at once
StartTools ==
    /\ opc = "ExecutingTools"
    /\ running' = 1..session[Len(session)].calls
    /\ completed' = <<>>
    /\ outcome' = NoOutcomes
    /\ toolRuns' = IF toolRuns + session[Len(session)].calls < MaxRounds * MaxToolCalls
                   THEN toolRuns + session[Len(session)].calls
                   ELSE MaxRounds * MaxToolCalls
    /\ opc' = "AwaitingTools"
    /\ UNCHANGED <<session, streamLen, held, chan, rx, produced, sent,
                   modelCalls, toolTurns, fragErr, failure, errSession,
                   errorsSent>>
    /\ UNCHANGED <<tokenVars, siteVars, planVars, dateVars>>

\* one tool invocation finishes, with a result or with an error
ToolDone(i, o) ==
    /\ opc = "AwaitingTools"
    /\ i \in running
    /\ o \in ToolOutcomes
    /\ running' = running \ {i}
    /\ completed' = Append(completed, i)
    /\ outcome' = [outcome EXCEPT ![i] = o]
    /\ UNCHANGED <<opc, session, streamLen, held, chan, rx, produced, sent,
                   modelCalls, toolTurns, fragErr, failure, errSession,
                   errorsSent, toolRuns>>
    /\ UNCHANGED <<tokenVars, siteVars, planVars, dateVars>>

\* variant that lists the results in the order the calls finished
ExecuteToolsAsCompleted ==
    /\ opc = "AwaitingTools"
    /\ running = {}
    /\ session' = AddTurn(session,
                          ToolResultTurn([k \in 1..Len(completed) |->
                              [id |-> completed[k],
                               error |-> outcome[completed[k]] # "ok"]]))
    /\ opc' = "Asking"
    /\ UNCHANGED <<streamLen, held, chan, rx, produced, sent, modelCalls,
                   toolTurns, fragErr, failure, errSession, errorsSent, running,
                   completed, toolRuns>>
    /\ outcome' = NoOutcomes
    /\ UNCHANGED <<tokenVars, siteVars, planVars, dateVars>>

\* variant that gives up on the turn when one of its tool calls failed
ExecuteToolsAbortsOnError ==
    /\ opc = "AwaitingTools"
    /\ running = {}
    /\ IF \E i \in 1..Len(completed) : outcome[i] # "ok"
       THEN /\ opc' = "Failed"
            /\ failure' = TRUE
            /\ errSession' = session
            /\ UNCHANGED session
       ELSE /\ session' = AddTurn(session,
                              ToolResultTurn([i \in 1..Len(completed) |->
                                  [id |-> i, error |-> outcome[i] # "ok"]]))
            /\ opc' = "Asking"
            /\ UNCHANGED <<failure, errSession>>
    /\ UNCHANGED <<streamLen, held, chan, rx, produced, sent, modelCalls,
                   toolTurns, fragErr, errorsSent, running,
                   completed, toolRuns>>
    /\ outcome' = NoOutcomes
    /\ UNCHANGED <<tokenVars, siteVars, planVars, dateVars>>

\* variant that leaves the failed calls out of the ToolResult turn
ExecuteToolsDropsFailed ==
    /\ opc = "AwaitingTools"
    /\ running = {}
    /\ session' = AddTurn(session,
                          ToolResultTurn(SelectSeq(
                              [i \in 1..Len(completed) |->
                                  [id |-> i, error |-> outcome[i] # "ok"]],
                              LAMBDA r : ~r.error)))
    /\ opc' = "Asking"
    /\ UNCHANGED <<streamLen, held, chan, rx, produced, sent, modelCalls,
                   toolTurns, fragErr, failure, errSession, errorsSent, running,
                   completed, toolRuns>>
    /\ outcome' = NoOutcomes
    /\ UNCHANGED <<tokenVars, siteVars, planVars, dateVars>>

\* inside handle_request: all tool calls have finished; their results are
\* appended as one ToolResult turn, in the order the calls were requested
ExecuteTools ==
    /\ opc = "AwaitingTools"
    /\ running = {}
    /\ session' = AddTurn(session,
                          ToolResultTurn([i \in 1..Len(completed) |->
                              [id |-> i, error |-> outcome[i] # "ok"]]))
    /\ opc' = "Asking"
    /\ UNCHANGED <<streamLen, held, chan, rx, produced, sent, modelCalls,
                   toolTurns, fragErr, failure, errSession, errorsSent, running,
                   completed, toolRuns>>
    /\ outcome' = NoOutcomes
    /\ UNCHANGED <<tokenVars, siteVars, planVars, dateVars>>

\* handle_request returns Ok(response_stream)
AskOk ==
    /\ opc = "Asking"
    /\ opc' = "Streaming"
    /\ streamLen' = 0
    /\ UNCHANGED <<session, held, chan, rx, produced, sent, modelCalls,
                   toolTurns, fragErr, failure, errSession, errorsSent>>
    /\ completed' = <<>>
    /\ UNCHANGED <<running, outcome, toolRuns>>
    /\ UNCHANGED <<tokenVars, siteVars, planVars, dateVars>>

\* handle_request returns Err((session, e)); line 66 logs both
AskFail ==
    /\ opc = "Asking"
    /\ opc' = "Failed"
    /\ failure' = TRUE
    /\ errSession' = session
    /\ UNCHANGED <<session, streamLen, held, chan, rx, produced, sent,
                   modelCalls, toolTurns, fragErr, errorsSent>>
    /\ completed' = <<>>
    /\ UNCHANGED <<running, outcome, toolRuns>>
    /\ UNCHANGED <<tokenVars, siteVars, planVars, dateVars>>

\* variant that keeps pulling fragments without sending them
NextOkBuffered(n) ==
    /\ opc = "Streaming"
    /\ streamLen < MaxStream
    /\ n \in 0..MaxToolCalls
    /\ Len(held) < 2
    /\ session[Len(session)].role = "Agent"
          => session[Len(session)].calls + n <= MaxToolCalls
    /\ LET id == IF Len(produced) < MaxFrags THEN Len(produced) + 1 ELSE 0
       IN  /\ held' = Append(held, id)
           /\ produced' = IF id # 0 THEN Append(produced, id) ELSE produced
    /\ session' = UpdateSession(session, session[Len(session)].role # "Agent", n)
    /\ streamLen' = streamLen + 1
    /\ UNCHANGED <<opc, chan, rx, sent, modelCalls, toolTurns, fragErr,
                   failure, errSession, errorsSent>>
    /\ UNCHANGED <<tokenVars, toolVars, siteVars, planVars, dateVars>>

\* lines 38-40: response_stream.next() yields Some(Ok(data)) carrying n
\* tool-call requests
NextOk(n) ==
    /\ opc = "Streaming"
    /\ streamLen < MaxStream
    /\ n \in 0..MaxToolCalls
    /\ session[Len(session)].role = "Agent"
          => session[Len(session)].calls + n <= MaxToolCalls
    /\ LET id == IF Len(produced) < MaxFrags THEN Len(produced) + 1 ELSE 0
       IN  /\ held' = Append(held, id)
           /\ produced' = IF id # 0 THEN Append(produced, id) ELSE produced
    /\ session' = UpdateSession(session, session[Len(session)].role # "Agent", n)
    /\ streamLen' = streamLen + 1
    /\ opc' = "Sending"
    /\ UNCHANGED <<chan, rx, sent, modelCalls, toolTurns, fragErr,
                   failure, errSession, errorsSent>>
    /\ UNCHANGED <<tokenVars, toolVars, siteVars, planVars, dateVars>>

\* lines 47-49: the item is Some(Err(error)); it is logged to stderr only
NextErr ==
    /\ opc = "Streaming"
    /\ streamLen < MaxStream
    /\ fragErr' = TRUE
    /\ streamLen' = streamLen + 1
    /\ UNCHANGED <<opc, session, held, chan, rx, produced, sent, modelCalls,
                   toolTurns, failure, errSession, errorsSent>>
    /\ UNCHANGED <<tokenVars, toolVars, siteVars, planVars, dateVars>>

\* variant that passes the chunk to the channel twice
SendDataTwice ==
    /\ opc = "Sending"
    /\ rx = "open"
    /\ Len(chan) < ChanCap
    /\ chan' = Append(chan, Chunk(Head(held)))
    /\ sent' = Record(Record(sent, Chunk(Head(held))), Chunk(Head(held)))
    /\ held' = Tail(held)
    /\ opc' = "Streaming"
    /\ UNCHANGED <<session, streamLen, rx, produced, modelCalls, toolTurns,
                   fragErr, failure, errSession, errorsSent>>
    /\ UNCHANGED <<tokenVars, toolVars, siteVars, planVars, dateVars>>

\* lines 41-45: tx.send_data(chunk).await succeeds
SendData ==
    /\ opc = "Sending"
    /\ rx = "open"
    /\ Len(chan) < ChanCap
    /\ chan' = Append(chan, Chunk(Head(held)))
    /\ sent' = Record(sent, Chunk(Head(held)))
    /\ held' = Tail(held)
    /\ opc' = "Streaming"
    /\ UNCHANGED <<session, streamLen, rx, produced, modelCalls, toolTurns,
                   fragErr, failure, errSession, errorsSent>>
    /\ UNCHANGED <<tokenVars, toolVars, siteVars, planVars, dateVars>>

\* lines 45 and 67: send_data fails on a dropped receiver, unwrap() panics
SendPanics ==
    /\ opc \in {"Sending", "Failed"}
    /\ rx = "dropped"
    /\ opc' = "Panicked"
    /\ UNCHANGED <<session, streamLen, held, chan, rx, produced, sent,
                   modelCalls, toolTurns, fragErr, failure, errSession,
                   errorsSent>>
    /\ UNCHANGED <<tokenVars, toolVars, siteVars, planVars, dateVars>>

\* variant that goes on to another model call whatever the last turn holds
StreamEndAlwaysLoops ==
    /\ opc = "Streaming"
    /\ opc' = "AwaitingModel"
    /\ toolTurns' = Sat(toolTurns, MaxRounds)
    /\ UNCHANGED <<session, streamLen, held, chan, rx, produced, sent,
                   modelCalls, fragErr, failure, errSession, errorsSent>>
    /\ UNCHANGED <<tokenVars, toolVars, siteVars, planVars, dateVars>>

\* lines 38 and 52-63: the stream yields None; break, or resolve the calls
StreamEnd ==
    /\ opc = "Streaming"
    /\ IF HasFunctionCall(session)
       THEN /\ opc' = "AwaitingModel"
            /\ toolTurns' = Sat(toolTurns, MaxRounds)
       ELSE /\ opc' = "Terminal"
            /\ UNCHANGED toolTurns
    /\ UNCHANGED <<session, streamLen, held, chan, rx, produced, sent,
                   modelCalls, fragErr, failure, errSession, errorsSent>>
    /\ UNCHANGED <<tokenVars, toolVars, siteVars, planVars, dateVars>>

\* variant that breaks out of the loop without telling the caller
SendErrorSilent ==
    /\ opc = "Failed"
    /\ rx = "open"
    /\ opc' = "Terminal"
    /\ UNCHANGED <<session, streamLen, held, chan, rx, produced, sent,
                   modelCalls, toolTurns, fragErr, failure, errSession,
                   errorsSent>>
    /\ UNCHANGED <<tokenVars, toolVars, siteVars, planVars, dateVars>>

\* lines 67-68: the error text is sent as a chunk, then break
SendError ==
    /\ opc = "Failed"
    /\ rx = "open"
    /\ Len(chan) < ChanCap
    /\ chan' = Append(chan, ErrorChunk)
    /\ sent' = Record(sent, ErrorChunk)
    /\ errorsSent' = errorsSent + 1
    /\ opc' = "Terminal"
    /\ UNCHANGED <<session, streamLen, held, rx, produced, modelCalls,
                   toolTurns, fragErr, failure, errSession>>
    /\ UNCHANGED <<tokenVars, toolVars, siteVars, planVars, dateVars>>

\* the transport takes the next chunk from rx
Receive ==
    /\ rx = "open"
    /\ chan # <<>>
    /\ chan' = Tail(chan)
    /\ UNCHANGED <<opc, session, streamLen, held, rx, produced, sent,
                   modelCalls, toolTurns, fragErr, failure, errSession,
                   errorsSent>>
    /\ UNCHANGED <<tokenVars, toolVars, siteVars, planVars, dateVars>>

\* the caller goes away: the receiving end is dropped
Disconnect ==
    /\ rx = "open"
    /\ opc \notin {"Terminal", "Panicked"}
    /\ rx' = "dropped"
    /\ chan' = <<>>
    /\ UNCHANGED <<opc, session, streamLen, held, produced, sent, modelCalls,
                   toolTurns, fragErr, failure, errSession, errorsSent>>
    /\ UNCHANGED <<tokenVars, toolVars, siteVars, planVars, dateVars>>

\* the steps of the spawned task and of what it awaits
Task ==
    \/ HandleRequest
    \/ StartTools
    \/ \E i \in 1..MaxToolCalls, o \in ToolOutcomes : ToolDone(i, o)
    \/ ExecuteTools
    \/ AskOk
    \/ AskFail
    \/ \E n \in 0..MaxToolCalls : NextOk(n)
    \/ NextErr
    \/ SendData
    \/ SendPanics
    \/ StreamEnd
    \/ SendError

OrchNext ==
    \/ Task
    \/ Receive
    \/ Disconnect

\* ------------------------------------------------- get_site_seeing
Some(x) == [some |-> x]

\* Result<String, Box<dyn Error>> of get_place_image_url
ImageOk(u) == [ok |-> TRUE, url |-> u]
ImageErr(cause) == [ok |-> FALSE, cause |-> cause]

\* the photo URL built from a photo_reference
PhotoUrl(ref) == [photo_reference |-> ref]

\* a text-search payload: per result the number of its photos, or -1 when the
\* result has no `photos` field; photo i of result j has the reference <<j, i>>
PhotoCounts == (-1)..MaxPhotos

Results ==
    UNION {[1..n -> PhotoCounts] : n \in 0..MaxResults}

Photos(counts, j) ==
    IF counts[j] = -1 THEN None ELSE Some([i \in 1..counts[j] |-> <<j, i>>])

PayloadStatuses == {"OK", "ZERO_RESULTS", "REQUEST_DENIED"}

\* what the Places endpoint does with one request
Replies ==
    {[kind |-> "sendError"], [kind |-> "httpError"], [kind |-> "badJson"]}
    \cup [kind : {"payload"}, status : PayloadStatuses, results : Results]

\* one call of get_place_image_url: is GOOGLE_MAPS_API_KEY set, and the reply
PlaceInputs == [key : BOOLEAN, reply : Replies]
NoInput == [key |-> FALSE, reply |-> [kind |-> "none"]]

\* r.photos.and_then(|mut p| p.pop()): the last photo of the result, if any
LastPhoto(counts, j) ==
    IF Photos(counts, j) = None \/ counts[j] = 0
    THEN None
    ELSE Some(Photos(counts, j).some[counts[j]])

\* payload.results.into_iter().find_map(..), from result j on
RECURSIVE FindPhoto(_, _)
FindPhoto(counts, j) ==
    IF j > Len(counts) THEN None
    ELSE IF LastPhoto(counts, j) # None THEN LastPhoto(counts, j)
    ELSE FindPhoto(counts, j + 1)

\* get_place_image_url
PlaceImageUrl(in) ==
    IF ~in.key THEN ImageErr("NotPresent")
    ELSE IF in.reply.kind = "sendError" THEN ImageErr("send")
    ELSE IF in.reply.kind = "httpError" THEN ImageErr("http status")
    ELSE IF in.reply.kind = "badJson" THEN ImageErr("decode")
    ELSE IF in.reply.status # "OK" THEN ImageErr(in.reply.status)
    ELSE IF FindPhoto(in.reply.results, 1) = None
         THEN ImageErr("No image found")
         ELSE ImageOk(PhotoUrl(FindPhoto(in.reply.results, 1).some))

\* Result::ok(): the value of an Ok, nothing for an Err
OkOf(r) == IF r.ok THEN Some(r.url) ELSE None

\* the text of a GeminiResponseError::StatusNotOk, as words
StatusTexts == {<<"503">>, <<"429">>, <<"500", "upstream", "503">>}

\* error.contains("503")
Contains503(text) == \E i \in 1..Len(text) : text[i] = "503"

\* how one call of ask() returns
AskResults ==
    [kind : {"Ok"}, n : 0..MaxSites]
    \cup [kind : {"StatusNotOk"}, text : StatusTexts]
    \cup {[kind |-> "OtherError"]}

Panic == [kind |-> "panic"]

SitesOk(v) == [ok |-> TRUE, sites |-> v]
SitesErr(e) == [ok |-> FALSE, error |-> e]
NoSiteResult == [ok |-> FALSE, error |-> "none"]

SiteInit ==
    /\ spos = "idle"
    /\ retries = Retries
    /\ asks = <<>>
    /\ sites = <<>>
    /\ cursor = 1
    /\ siteResult = NoSiteResult
    /\ imgIn = NoInput
    /\ imgOut = ImageErr("none")

\* a task enters get_site_seeing(location)
GetSiteSeeing ==
    /\ spos = "idle"
    /\ spos' = "asking"
    /\ retries' = Retries
    /\ UNCHANGED <<asks, sites, cursor, siteResult, imgIn, imgOut>>
    /\ UNCHANGED <<tokenVars, orchVars, planVars, dateVars>>

\* variant whose loop does not count the attempts
AskReturnsKeepsRetrying(r) ==
    /\ spos = "asking"
    /\ r \in AskResults
    /\ asks' = Append(asks, r)
    /\ IF r.kind = "Ok"
       THEN /\ sites' = [i \in 1..r.n |-> [image_url |-> None]]
            /\ spos' = "images"
            /\ UNCHANGED siteResult
       ELSE IF r.kind = "StatusNotOk" /\ Contains503(r.text)
       THEN UNCHANGED <<sites, spos, siteResult>>
       ELSE /\ siteResult' = SitesErr(r)
            /\ spos' = "done"
            /\ UNCHANGED sites
    /\ UNCHANGED <<retries, cursor, imgIn, imgOut>>
    /\ UNCHANGED <<tokenVars, orchVars, planVars, dateVars>>

\* ask(location).await returns and the match of the loop body runs
AskReturns(r) ==
    /\ spos = "asking"
    /\ r \in AskResults
    /\ asks' = Append(asks, r)
    /\ IF r.kind = "Ok"
       THEN /\ sites' = [i \in 1..r.n |-> [image_url |-> None]]
            /\ spos' = "images"
            /\ UNCHANGED <<retries, siteResult>>
       ELSE IF r.kind = "StatusNotOk" /\ Contains503(r.text)
       THEN /\ retries' = retries - 1
            /\ IF retries - 1 = 0
               THEN /\ siteResult' = SitesErr("s")
                    /\ spos' = "done"
               ELSE UNCHANGED <<siteResult, spos>>
            /\ UNCHANGED sites
       ELSE /\ siteResult' = SitesErr(r)
            /\ spos' = "done"
            /\ UNCHANGED <<retries, sites>>
    /\ UNCHANGED <<cursor, imgIn, imgOut>>
    /\ UNCHANGED <<tokenVars, orchVars, planVars, dateVars>>

\* ask() panics: GEMINI_API_KEY is not set, or the reply is not the JSON asked for
AskPanics ==
    /\ spos = "asking"
    /\ asks' = Append(asks, Panic)
    /\ spos' = "panicked"
    /\ UNCHANGED <<retries, sites, cursor, siteResult, imgIn, imgOut>>
    /\ UNCHANGED <<tokenVars, orchVars, planVars, dateVars>>

\* one round of the `for` loop: site.image_url = get_place_image_url(..).ok()
Lookup(in) ==
    /\ spos = "images"
    /\ cursor <= Len(sites)
    /\ in \in PlaceInputs
    /\ imgIn' = in
    /\ imgOut' = PlaceImageUrl(in)
    /\ sites' = [sites EXCEPT ![cursor].image_url = OkOf(PlaceImageUrl(in))]
    /\ cursor' = cursor + 1
    /\ UNCHANGED <<spos, retries, asks, siteResult>>
    /\ UNCHANGED <<tokenVars, orchVars, planVars, dateVars>>

\* the `for` loop is over: Ok(sites)
ReturnSites ==
    /\ spos = "images"
    /\ cursor > Len(sites)
    /\ siteResult' = SitesOk(sites)
    /\ spos' = "done"
    /\ UNCHANGED <<retries, asks, sites, cursor, imgIn, imgOut>>
    /\ UNCHANGED <<tokenVars, orchVars, planVars, dateVars>>

SiteNext ==
    \/ GetSiteSeeing
    \/ \E r \in AskResults : AskReturns(r)
    \/ AskPanics
    \/ \E in \in PlaceInputs : Lookup(in)
    \/ ReturnSites

\* ------------------------------------------------- plan_tour
\* the futures handed to join!, in the order of its arguments
Lookups == {"flights", "site_seeing", "hotels"}
LookupOutcomes == {"ok", "err"}

PlanOk == [ok |-> TRUE, error |-> "none"]
PlanErr(from) == [ok |-> FALSE, error |-> from]
NoPlanResult == [ok |-> FALSE, error |-> "pending"]

PlanInit ==
    /\ ppos = "idle"
    /\ lookup = [l \in Lookups |-> "unstarted"]
    /\ finished = <<>>
    /\ finalCalls = 0
    /\ planResult = NoPlanResult

\* a task enters plan_tour and awaits ask_itata_code
PlanTour ==
    /\ ppos = "idle"
    /\ ppos' = "iata"
    /\ UNCHANGED <<lookup, finished, finalCalls, planResult>>
    /\ UNCHANGED <<tokenVars, orchVars, siteVars, dateVars>>

\* ask_itata_code returned Ok: the three futures are built and join! polls them
IataOk ==
    /\ ppos = "iata"
    /\ lookup' = [l \in Lookups |-> "running"]
    /\ ppos' = "joining"
    /\ UNCHANGED <<finished, finalCalls, planResult>>
    /\ UNCHANGED <<tokenVars, orchVars, siteVars, dateVars>>

\* ask_itata_code(..).await? returned Err
IataFail ==
    /\ ppos = "iata"
    /\ planResult' = PlanErr("iata")
    /\ ppos' = "done"
    /\ UNCHANGED <<lookup, finished, finalCalls>>
    /\ UNCHANGED <<tokenVars, orchVars, siteVars, dateVars>>

\* env::var("GEMINI_API_KEY").unwrap() inside ask_itata_code panics
IataPanics ==
    /\ ppos = "iata"
    /\ ppos' = "panicked"
    /\ UNCHANGED <<lookup, finished, finalCalls, planResult>>
    /\ UNCHANGED <<tokenVars, orchVars, siteVars, dateVars>>

\* one of the joined futures completes, with Ok or with Err
LookupDone(l, o) ==
    /\ ppos = "joining"
    /\ lookup[l] = "running"
    /\ o \in LookupOutcomes
    /\ lookup' = [lookup EXCEPT ![l] = o]
    /\ finished' = Append(finished, l)
    /\ UNCHANGED <<ppos, finalCalls, planResult>>
    /\ UNCHANGED <<tokenVars, orchVars, siteVars, dateVars>>

\* get_site_seeing panics inside ask(); the unwinding drops the other futures
LookupPanics ==
    /\ ppos = "joining"
    /\ lookup["site_seeing"] = "running"
    /\ ppos' = "panicked"
    /\ UNCHANGED <<lookup, finished, finalCalls, planResult>>
    /\ UNCHANGED <<tokenVars, orchVars, siteVars, dateVars>>

\* variant that unwraps the results in the order of the join! tuple
JoinedInTupleOrder ==
    /\ ppos = "joining"
    /\ \A l \in Lookups : lookup[l] \in LookupOutcomes
    /\ IF lookup["flights"] = "err"
       THEN planResult' = PlanErr("flights") /\ ppos' = "done"
                /\ UNCHANGED finalCalls
       ELSE IF lookup["site_seeing"] = "err"
       THEN planResult' = PlanErr("site_seeing") /\ ppos' = "done"
                /\ UNCHANGED finalCalls
       ELSE IF lookup["hotels"] = "err"
       THEN planResult' = PlanErr("hotels") /\ ppos' = "done"
                /\ UNCHANGED finalCalls
       ELSE finalCalls' = finalCalls + 1 /\ ppos' = "final"
                /\ UNCHANGED planResult
    /\ UNCHANGED <<lookup, finished>>
    /\ UNCHANGED <<tokenVars, orchVars, siteVars, dateVars>>

\* join! returned: the arguments of format! are evaluated in order, flights?
\* then hotels? then site_seeing?, and then ai.ask is called
Joined ==
    /\ ppos = "joining"
    /\ \A l \in Lookups : lookup[l] \in LookupOutcomes
    /\ IF lookup["flights"] = "err"
       THEN planResult' = PlanErr("flights") /\ ppos' = "done"
                /\ UNCHANGED finalCalls
       ELSE IF lookup["hotels"] = "err"
       THEN planResult' = PlanErr("hotels") /\ ppos' = "done"
                /\ UNCHANGED finalCalls
       ELSE IF lookup["site_seeing"] = "err"
       THEN planResult' = PlanErr("site_seeing") /\ ppos' = "done"
                /\ UNCHANGED finalCalls
       ELSE finalCalls' = finalCalls + 1 /\ ppos' = "final"
                /\ UNCHANGED planResult
    /\ UNCHANGED <<lookup, finished>>
    /\ UNCHANGED <<tokenVars, orchVars, siteVars, dateVars>>

\* the itinerary model answered: Ok(response.get_text(""))
FinalOk ==
    /\ ppos = "final"
    /\ planResult' = PlanOk
    /\ ppos' = "done"
    /\ UNCHANGED <<lookup, finished, finalCalls>>
    /\ UNCHANGED <<tokenVars, orchVars, siteVars, dateVars>>

\* ai.ask(..).await? returned Err
FinalFail ==
    /\ ppos = "final"
    /\ planResult' = PlanErr("final")
    /\ ppos' = "done"
    /\ UNCHANGED <<lookup, finished, finalCalls>>
    /\ UNCHANGED <<tokenVars, orchVars, siteVars, dateVars>>

PlanNext ==
    \/ PlanTour
    \/ IataOk
    \/ IataFail
    \/ IataPanics
    \/ \E l \in Lookups, o \in LookupOutcomes : LookupDone(l, o)
    \/ LookupPanics
    \/ Joined
    \/ FinalOk
    \/ FinalFail

\* ------------------------------------------------- Date
Years == {0, 7, 42, 999, 1000, 2024, 9999, 10000, U16Max}
Months == (0..MaxMonth) \cup {U8Max}
Days == (0..MaxDay) \cup {U8Max}

DateOk(y, m, d) == [ok |-> TRUE, year |-> y, month |-> m, day |-> d]
DateErr(what, found) == [ok |-> FALSE, error |-> what, found |-> found]
NoDate == [ok |-> FALSE, error |-> "none", found |-> 0]

\* Date::new
DateNew(y, m, d) ==
    IF d > DayLimit THEN DateErr("Day cannot be more than 31", d)
    ELSE IF m > MonthLimit THEN DateErr("Month cannot be more than 12", m)
    ELSE DateOk(y, m, d)

DigitChars == <<"0", "1", "2", "3", "4", "5", "6", "7", "8", "9">>

\* the decimal digits of n, most significant first
RECURSIVE Digits(_)
Digits(n) ==
    IF n < 10 THEN <<DigitChars[n + 1]>>
    ELSE Digits(n \div 10) \o <<DigitChars[(n % 10) + 1]>>

\* {:0w}: at least w characters, padded with zeros on the left
Pad(n, w) ==
    IF Len(Digits(n)) >= w THEN Digits(n)
    ELSE [i \in 1..(w - Len(Digits(n))) |-> "0"] \o Digits(n)

\* Date::to_yyyy_mm_dd
ToYyyyMmDd(d) ==
    Pad(d.year, YearWidth) \o <<"-">> \o Pad(d.month, FieldWidth)
        \o <<"-">> \o Pad(d.day, FieldWidth)

\* date.split('-'): the fields between the separators
RECURSIVE Split(_)
Split(text) ==
    IF \A i \in 1..Len(text) : text[i] # "-" THEN <<text>>
    ELSE LET k == CHOOSE i \in 1..Len(text) :
                      text[i] = "-" /\ \A j \in 1..(i - 1) : text[j] # "-"
         IN <<SubSeq(text, 1, k - 1)>> \o Split(SubSeq(text, k + 1, Len(text)))

DigitValue(c) == (CHOOSE i \in 1..10 : DigitChars[i] = c) - 1

RECURSIVE Value(_)
Value(field) ==
    IF field = <<>> THEN 0
    ELSE 10 * Value(SubSeq(field, 1, Len(field) - 1))
             + DigitValue(field[Len(field)])

IsDigits(field) ==
    field # <<>> /\ \A i \in 1..Len(field) : \E k \in 1..10 : DigitChars[k] = field[i]

\* variant of the parser that rejects a number written with leading zeros
ParseNoLeadingZero(field, max) ==
    IF ~IsDigits(field) THEN [ok |-> FALSE, val |-> 0]
    ELSE IF Len(field) > 1 /\ field[1] = "0" THEN [ok |-> FALSE, val |-> 0]
    ELSE IF Value(field) > max THEN [ok |-> FALSE, val |-> 0]
    ELSE [ok |-> TRUE, val |-> Value(field)]

\* str::parse::<u16>() / ::<u8>(): decimal digits, leading zeros allowed, an
\* error when the field is empty, not a number or beyond the type's range
Parse(field, max) ==
    IF ~IsDigits(field) THEN [ok |-> FALSE, val |-> 0]
    ELSE IF Value(field) > max THEN [ok |-> FALSE, val |-> 0]
    ELSE [ok |-> TRUE, val |-> Value(field)]

\* Date::from_yyyy_mm_dd
FromYyyyMmDd(text) ==
    LET num == Split(text) IN
    IF ~Parse(num[1], U16Max).ok THEN DateErr("ParseIntError", 1)
    ELSE IF Len(num) < 2 THEN DateErr("Month not found", 0)
    ELSE IF ~Parse(num[2], U8Max).ok THEN DateErr("ParseIntError", 2)
    ELSE IF Len(num) < 3 THEN DateErr("Day not found", 0)
    ELSE IF ~Parse(num[3], U8Max).ok THEN DateErr("ParseIntError", 3)
    ELSE IF Len(num) > 3 THEN DateErr("Too many parameters in data", 0)
    ELSE DateNew(Parse(num[1], U16Max).val, Parse(num[2], U8Max).val,
                 Parse(num[3], U8Max).val)

DateInit ==
    /\ dpos = "idle"
    /\ dIn = [year |-> 0, month |-> 0, day |-> 0]
    /\ dNew = NoDate
    /\ dText = <<>>
    /\ dParsed = NoDate

\* Date::new(year, month, day) is called
NewDate(y, m, d) ==
    /\ dpos = "idle"
    /\ dIn' = [year |-> y, month |-> m, day |-> d]
    /\ dNew' = DateNew(y, m, d)
    /\ dpos' = "made"
    /\ UNCHANGED <<dText, dParsed>>
    /\ UNCHANGED <<tokenVars, orchVars, siteVars, planVars>>

\* to_yyyy_mm_dd is called on the Date that Date::new returned
FormatDate ==
    /\ dpos = "made"
    /\ dNew.ok
    /\ dText' = ToYyyyMmDd(dNew)
    /\ dpos' = "text"
    /\ UNCHANGED <<dIn, dNew, dParsed>>
    /\ UNCHANGED <<tokenVars, orchVars, siteVars, planVars>>

\* from_yyyy_mm_dd is called on that text
ParseDate ==
    /\ dpos = "text"
    /\ dParsed' = FromYyyyMmDd(dText)
    /\ dpos' = "parsed"
    /\ UNCHANGED <<dIn, dNew, dText>>
    /\ UNCHANGED <<tokenVars, orchVars, siteVars, planVars>>

DateNext ==
    \/ \E y \in Years, m \in Months, d \in Days : NewDate(y, m, d)
    \/ FormatDate
    \/ ParseDate

Init == TokenInit /\ OrchInit /\ SiteInit /\ PlanInit /\ DateInit

\* the token cache under concurrent callers
Next == TokenNext
Spec == Init /\ [][Next]_vars

\* the steps get_bearer_token takes by itself: the two lock acquisitions and
\* the two checks
TaskStep(p) == ReadLock(p) \/ FastPath(p) \/ WriteLock(p) \/ Recheck(p)

\* the runtime keeps polling every task; nothing bounds the time the
\* authentication endpoint takes to answer (reqwest::Client::new() sets no
\* timeout), so its answers carry no fairness condition
TokenFairSpec == Spec /\ \A p \in Callers : WF_vars(TaskStep(p))

\* one request served by stream_handler
OrchSpec == Init /\ [][OrchNext]_vars

\* the runtime keeps polling the spawned task and the transport keeps reading
OrchFairSpec == OrchSpec /\ WF_vars(Task) /\ WF_vars(Receive)

\* one call of plan_tour
PlanSpec == Init /\ [][PlanNext]_vars

\* one Date built, printed and read back
DateSpec == Init /\ [][DateNext]_vars

\* one call of get_site_seeing
SiteSpec == Init /\ [][SiteNext]_vars

\* ------------------------------------------------- token cache: claims

\* task p waited while another task issued an exchange for p's identity,
\* and that exchange succeeded
WaitedForRefresh(p) ==
    /\ waitedFor[p] # 0
    /\ exch[waitedFor[p]].status = "ok"
    /\ exch[waitedFor[p]].for = ident[p]

\* C1 as stated: a caller that waited while another caller's exchange for the
\* same identity succeeded never issues an exchange of its own, and returns
\* the secret of that one exchange.
C1_SingleFlight ==
    \A p \in Callers :
        WaitedForRefresh(p) =>
            /\ myExch[p] = 0
            /\ pc[p] = "done" => result[p] = Ok(Secret(waitedFor[p]))

\* C1 amended: a caller that waited while another caller's exchange for the
\* same identity succeeded issues an exchange of its own only if, at its
\* re-check under the write guard, the stored entry's expiry was not more than
\* 30 s ahead; otherwise it returns the secret of that one exchange.
C1_SingleFlightWhileValid ==
    \A p \in Callers :
        WaitedForRefresh(p) =>
            /\ myExch[p] # 0 =>
                  exch[waitedFor[p]].expiry <= recheckAt[p] + Margin
            /\ (myExch[p] = 0 /\ pc[p] = "done") =>
                  result[p] = Ok(Secret(waitedFor[p]))

\* a caller waited for the write guard during the only exchange and returned
\* its secret from the re-check
C1_Witness ==
    \E p \in Callers :
        /\ WaitedForRefresh(p)
        /\ Len(exch) = 1
        /\ pc[p] = "done"
        /\ recheckAt[p] >= 0
        /\ myExch[p] = 0
        /\ result[p] = Ok(Secret(1))

\* C2: while a task's exchange is in flight, every step other than the
\* successful completion of that exchange leaves the cache as it was; when
\* the exchange fails the task returns an error of the failing stage.
C2_FailedRefreshKeepsCache ==
    [][\A p \in Callers :
          /\ (pc[p] \in {"send", "body"} /\ ~(pc'[p] = "done" /\ result'[p].ok))
                => cache' = cache
          /\ (pc[p] \in {"send", "body"} /\ pc'[p] = "done" /\ ~result'[p].ok)
                => result'[p].error \in FailKinds]_vars

\* a refresh failed while an entry stored earlier is still in the cache
C2_Witness ==
    \E p \in Callers :
        /\ pc[p] = "done"
        /\ ~result[p].ok
        /\ result[p].error \in FailKinds
        /\ cache # None

\* C3: a call never returns a secret issued for another identity.
C3_KeyedByIdentity ==
    \A p \in Callers :
        (pc[p] = "done" /\ result[p].ok) =>
            result[p].secret.issuedFor = ident[p]

\* C4: a task whose check under the read guard finds an entry expiring more
\* than 30 s ahead returns that entry's secret at once: no exchange is issued,
\* the write guard is not taken and the cache is unchanged.
C4_FastPath ==
    [][\A p \in Callers :
          (/\ pc[p] = "rcheck" /\ pc'[p] # "rcheck"
           /\ cache # None /\ cache.expiry > now + Margin)
          => /\ pc'[p] = "done"
             /\ result'[p] = Ok(cache.secret)
             /\ cache' = cache
             /\ exch' = exch
             /\ writer' = writer]_vars

\* a call returned from the fast path
C4_Witness ==
    \E p \in Callers :
        /\ pc[p] = "done"
        /\ result[p].ok
        /\ recheckAt[p] = -1
        /\ myExch[p] = 0
        /\ cache # None /\ result[p].secret = cache.secret

\* C13: every call of get_bearer_token eventually returns, even if the
\* authentication endpoint never answers.
C13_ExchangeTimeout ==
    \A p \in Callers : InProgress(p) ~> pc[p] = "done"

\* the exchanges of the log that have not been answered yet
InFlight == {k \in 1..Len(exch) : exch[k].status = "pending"}

\* C18: at most one exchange is in flight, the task performing it holds the
\* write guard, and no other task is between its POST and the answer.
C18_RefreshMutex ==
    /\ Cardinality(InFlight) <= 1
    /\ \A p \in Callers :
          pc[p] \in {"send", "body"} =>
              /\ writer = p
              /\ InFlight = {myExch[p]}
              /\ \A q \in Callers \ {p} : pc[q] \notin {"send", "body"}

\* an exchange is in flight after an earlier one failed, and another task
\* waits for the write guard
C18_Witness ==
    \E p, q \in Callers :
        /\ pc[p] = "send"
        /\ pc[q] = "wlock"
        /\ \E k \in 1..Len(exch) : exch[k].status = "failed"

\* an error is returned only to the task whose own exchange failed
ErrorsNotShared ==
    \A p \in Callers :
        (pc[p] = "done" /\ ~result[p].ok) =>
            /\ myExch[p] # 0
            /\ exch[myExch[p]].status = "failed"
            /\ result[p].error \in FailKinds

\* a task that waited during an exchange that failed issues its own
WaiterRetries ==
    \A p \in Callers :
        (pc[p] = "done" /\ waitedFor[p] # 0
         /\ exch[waitedFor[p]].status = "failed") =>
            /\ myExch[p] > waitedFor[p]
            /\ exch[myExch[p]].status = "ok" => result[p] = Ok(Secret(myExch[p]))

\* every call issues at most one exchange
OneExchangePerCall ==
    /\ Len(exch) <= started
    /\ \A p, q \in Callers : (p # q /\ myExch[p] # 0) => myExch[p] # myExch[q]

\* C19 as stated: the error of a failed exchange goes to the task that issued
\* it only, a task that waited during a failed exchange issues its own, no call
\* issues more than one exchange, and a task that waited during a successful
\* exchange issues none.
C19_FailuresNotShared ==
    /\ ErrorsNotShared
    /\ WaiterRetries
    /\ OneExchangePerCall
    /\ \A p \in Callers :
          (waitedFor[p] # 0 /\ exch[waitedFor[p]].status = "ok") => myExch[p] = 0

\* C19 amended: as above, but a task that waited during a successful exchange
\* issues none only if the stored entry's expiry was more than 30 s ahead at
\* its re-check under the write guard.
C19_FailuresNotSharedWhileValid ==
    /\ ErrorsNotShared
    /\ WaiterRetries
    /\ OneExchangePerCall
    /\ \A p \in Callers :
          (waitedFor[p] # 0 /\ exch[waitedFor[p]].status = "ok"
           /\ myExch[p] # 0) =>
              exch[waitedFor[p]].expiry <= recheckAt[p] + Margin

\* a task waited during an exchange that failed, then issued its own and
\* returned that one's secret, while the other task got the error
C19_Witness ==
    \E p, q \in Callers :
        /\ pc[p] = "done" /\ pc[q] = "done"
        /\ waitedFor[p] = myExch[q] /\ myExch[q] # 0
        /\ ~result[q].ok
        /\ myExch[p] # 0 /\ result[p] = Ok(Secret(myExch[p]))

\* C22: the cache changes only when a task holding the write guard completes
\* a successful exchange, and then holds that exchange's secret with expiry =
\* instant of storing + declared lifetime; a call that returns from the fast
\* path, from the re-check or with an error leaves it unchanged; a populated
\* cache is never emptied.
C22_CacheFrame ==
    /\ [][cache' # cache =>
            \E p \in Callers :
                /\ pc[p] = "body" /\ writer = p
                /\ pc'[p] = "done"
                /\ result'[p] = Ok(Secret(myExch[p]))
                /\ cache'.secret = Secret(myExch[p])
                /\ \E life \in Lifetimes : cache'.expiry = now + life
                /\ exch[myExch[p]].status = "pending"
                /\ exch'[myExch[p]].status = "ok"]_vars
    /\ [][\A p \in Callers :
            (/\ pc[p] # "done" /\ pc'[p] = "done"
             /\ (pc[p] \in {"rcheck", "wcheck"} \/ ~result'[p].ok))
            => cache' = cache]_vars
    /\ [][cache # None => cache' # None]_vars

\* the entry of a first exchange was replaced by that of a later one, stored
\* after the clock had advanced
C22_Witness ==
    \E p \in Callers :
        /\ pc[p] = "done"
        /\ myExch[p] > 1
        /\ exch[1].status = "ok"
        /\ cache = [secret |-> Secret(myExch[p]), expiry |-> now + Margin + 1]
        /\ now > 0

\* ------------------------------------------------- stream_handler: claims

\* the fragments of the data chunks of a history, in order
RECURSIVE DataFrags(_)
DataFrags(h) ==
    IF h = <<>> THEN <<>>
    ELSE IF Head(h).kind = "data" THEN <<Head(h).frag>> \o DataFrags(Tail(h))
         ELSE DataFrags(Tail(h))

\* the held fragments that carry an identity
RECURSIVE Tracked(_)
Tracked(q) ==
    IF q = <<>> THEN <<>>
    ELSE IF Head(q) # 0 THEN <<Head(q)>> \o Tracked(Tail(q))
         ELSE Tracked(Tail(q))

TaskEnded == opc \in {"Terminal", "Panicked"}

\* C5: the loop of stream_handler ends after a bounded number of model calls
\* even if every model turn requests a tool call: the spawned task eventually
\* finishes and the response stream ends.
C5_ResolutionLimit == <>TaskEnded

\* C6: when a model stream completes, the task goes on to another model call
\* if the last turn of the session requests a tool call and leaves the loop
\* otherwise; the number of handle_request invocations is one plus the number
\* of completed Agent turns that requested tools (none: exactly one call).
C6_LoopExit ==
    /\ [][(opc = "Streaming" /\ opc' \notin {"Streaming", "Sending"})
            => /\ HasFunctionCall(session) => opc' = "AwaitingModel"
               /\ ~HasFunctionCall(session) => opc' = "Terminal"]_vars
    /\ [][modelCalls' # modelCalls => opc = "AwaitingModel"]_vars
    /\ [](toolTurns < MaxRounds =>
            modelCalls = toolTurns + (IF opc = "AwaitingModel" THEN 0 ELSE 1))

\* the loop ended normally after one round of tool resolution
C6_Witness ==
    /\ opc = "Terminal"
    /\ ~failure
    /\ toolTurns = 1
    /\ modelCalls = 2

\* C7: once handle_request has failed there is no further invocation of
\* handle_request and no further turn is appended; the task sends exactly one
\* error value and ends, and the session handed back with the error is the
\* session as it stood at the failure.
C7_ModelCallFailure ==
    /\ [][failure => /\ modelCalls' = modelCalls
                     /\ session' = session
                     /\ opc' \in {"Failed", "Terminal", "Panicked"}]_vars
    /\ [](failure => /\ errSession = session
                     /\ opc = "Failed" => errorsSent = 0
                     /\ opc = "Terminal" =>
                           /\ errorsSent = 1
                           /\ Len(SelectSeq(sent, LAMBDA c : c.kind = "error")) = 1)
    /\ [](~failure => errorsSent = 0)

\* the second model call failed and its error was sent
C7_Witness ==
    /\ failure
    /\ opc = "Terminal"
    /\ modelCalls = 2
    /\ errorsSent = 1
    /\ Len(session) = 3

\* C8: when the task has ended the stream normally and some item of a model
\* stream was an error, an error value has been sent to the caller.
C8_NoSilentTruncation ==
    (opc = "Terminal" /\ fragErr) => errorsSent >= 1

\* C9: the data chunks sent, followed by the fragment being sent, are exactly
\* the fragments the model streams produced, in order and without repetition;
\* while the caller is connected nothing but the fragment being sent is unsent.
C9_StreamingOrder ==
    /\ DataFrags(sent) \o Tracked(held) = produced
    /\ (rx = "open" /\ opc # "Sending") => DataFrags(sent) = produced

\* fragments of two model calls were sent
C9_Witness ==
    /\ modelCalls = 2
    /\ Len(DataFrags(sent)) = 3
    /\ DataFrags(sent) = produced

\* C10: at most one fragment is held unsent, and none is held when the next
\* item is pulled from the stream or when the end of the stream is observed.
C10_NoBuffering ==
    /\ Len(held) <= 1
    /\ opc \notin {"Sending", "Panicked"} => held = <<>>

\* a fragment has been pulled and is about to be sent, after an earlier one
C10_Witness ==
    /\ opc = "Sending"
    /\ Len(held) = 1
    /\ Len(sent) >= 1

\* ------------------------------------------------ tool resolution: claims

LastTurn(ses) == ses[Len(ses)]

\* the ToolResult turn k answers the calls 1..n, one result each, in order
AnswersInOrder(t, n) ==
    /\ t.role = "ToolResult"
    /\ Len(t.results) = n
    /\ \A i \in 1..n : t.results[i].id = i

\* C11: all tool calls of an Agent turn are in flight at once; the ToolResult
\* turn is appended only when every one of them has finished, and it lists
\* the results in the order the calls were requested, whatever the order in
\* which they finished.
C11_ToolCallOrdering ==
    /\ [](opc = "AwaitingTools" =>
            running \cup {completed[k] : k \in 1..Len(completed)}
                = 1..LastTurn(session).calls)
    /\ [][(opc = "AwaitingTools" /\ session' # session)
            => /\ running = {}
               /\ AnswersInOrder(LastTurn(session'), LastTurn(session).calls)]_vars

\* the second call finished first, and the turn lists the first call first
C11_Witness ==
    /\ opc = "Asking"
    /\ completed = <<2, 1>>
    /\ AnswersInOrder(LastTurn(session), 2)

\* C12: when the tool calls of a turn have finished, some of them with an
\* error, one ToolResult turn is appended in which exactly the failed calls
\* are marked as errors, and the task goes on to the next model call.
C12_PartialToolFailure ==
    [][(opc = "AwaitingTools" /\ opc' # "AwaitingTools")
         => /\ running = {}
            /\ opc' = "Asking"
            /\ failure' = failure
            /\ LastTurn(session').role = "ToolResult"
            /\ Len(LastTurn(session').results) = LastTurn(session).calls
            /\ \A i \in 1..LastTurn(session).calls :
                  LastTurn(session').results[i].error
                      = (outcome[i] \in ToolErrors)]_vars

\* the next model call streams after a turn whose second call failed
C12_Witness ==
    /\ opc = "Streaming"
    /\ modelCalls = 2
    /\ ~failure
    /\ LastTurn(session).role = "ToolResult"
    /\ LastTurn(session).results
          = <<[id |-> 1, error |-> FALSE], [id |-> 2, error |-> TRUE]>>

\* every retained Agent turn that requests tools is followed by its answers
RequestsAnswered(ses) ==
    \A k \in 1..Len(ses) :
        (ses[k].role = "Agent" /\ ses[k].calls > 0)
            => /\ k < Len(ses)
               /\ AnswersInOrder(ses[k + 1], ses[k].calls)

\* the ToolResult turn at position k follows the Agent turn it answers
FollowsRequest(ses, k) ==
    /\ k > 1
    /\ ses[k - 1].role = "Agent"
    /\ ses[k - 1].calls = Len(ses[k].results)
    /\ ses[k - 1].calls > 0

C15_Cancellation ==
    /\ [][rx = "dropped" => modelCalls' = modelCalls]_vars
    /\ [](opc # "Panicked")

\* C17: a run that ended normally after exactly one tool-requesting turn,
\* which requested one call that succeeded, and a final Agent turn made two
\* model calls and one tool invocation, left the four turns User, Agent(call),
\* ToolResult, Agent(final), and sent at least one chunk.
C17_EndToEnd ==
    (/\ opc = "Terminal" /\ ~failure
     /\ toolTurns = 1
     /\ LastTurn(session).role = "Agent"
     /\ \E k \in 1..Len(session) : session[k] = AgentTurn(1)
     /\ \A k \in 1..Len(session) :
           session[k].role = "ToolResult" => ~session[k].results[1].error)
    => /\ modelCalls = 2
       /\ toolRuns = 1
       /\ session = <<UserTurn, AgentTurn(1),
                      ToolResultTurn(<<[id |-> 1, error |-> FALSE]>>),
                      AgentTurn(0)>>
       /\ DataFrags(sent) # <<>>

\* the scenario has run to its end
C17_Witness ==
    /\ opc = "Terminal"
    /\ modelCalls = 2
    /\ toolRuns = 1
    /\ session = <<UserTurn, AgentTurn(1),
                   ToolResultTurn(<<[id |-> 1, error |-> FALSE]>>),
                   AgentTurn(0)>>
    /\ sent # <<>>

\* ------------------------------------------------- get_site_seeing: claims

\* the search succeeded with status OK and no result carries a photo
NoPhoto(in) ==
    /\ in.key
    /\ in.reply.kind = "payload"
    /\ in.reply.status = "OK"
    /\ \A j \in 1..Len(in.reply.results) : in.reply.results[j] <= 0

\* C16: get_place_image_url returns Ok(None) when the search succeeds with
\* status OK and no result has a photo; it returns an error only for a missing
\* API key, a transport failure (the request fails, or the body cannot be read
\* as the payload), a non-success HTTP status or a non-OK payload status.
C16_NoPhotoIsOkNone ==
    imgIn # NoInput =>
        /\ NoPhoto(imgIn) => imgOut = ImageOk(None)
        /\ ~imgOut.ok =>
              \/ ~imgIn.key
              \/ imgIn.reply.kind \in {"sendError", "badJson", "httpError"}
              \/ imgIn.reply.kind = "payload" /\ imgIn.reply.status # "OK"

\* ask() ended with a StatusNotOk whose text contains "503"
Is503(r) == r.kind = "StatusNotOk" /\ Contains503(r.text)

\* ask() ended with any other error
IsOtherFailure(r) ==
    \/ r.kind = "OtherError"
    \/ r.kind = "StatusNotOk" /\ ~Contains503(r.text)

\* C20: get_site_seeing issues at most 3 model requests; it repeats the
\* request only after a StatusNotOk with "503", returns the error at once on
\* any other failure, returns an error after the third 503, and after the
\* first success looks up the images and returns Ok(sites), a failed lookup
\* leaving the site's image_url absent.
C20_RetryBound ==
    /\ Len(asks) <= Retries
    /\ \A i \in 1..(Len(asks) - 1) : Is503(asks[i])
    /\ asks = <<>> => spos \in {"idle", "asking"} /\ siteResult = NoSiteResult
    /\ asks # <<>> =>
          /\ Is503(asks[Len(asks)]) =>
                IF Len(asks) = Retries
                THEN spos = "done" /\ ~siteResult.ok
                ELSE spos = "asking" /\ siteResult = NoSiteResult
          /\ IsOtherFailure(asks[Len(asks)]) =>
                spos = "done" /\ siteResult = SitesErr(asks[Len(asks)])
          /\ asks[Len(asks)].kind = "Ok" =>
                /\ spos \in {"images", "done"}
                /\ Len(sites) = asks[Len(asks)].n
                /\ spos = "done" =>
                      /\ siteResult = SitesOk(sites)
                      /\ cursor = Len(sites) + 1
                      /\ Len(sites) > 0 =>
                            sites[Len(sites)].image_url =
                                IF imgOut.ok THEN Some(imgOut.url) ELSE None

\* the third request succeeded after two 503 answers, every image lookup
\* failed, and the call returned Ok with no image_url
C20_Witness ==
    /\ spos = "done"
    /\ Len(asks) = Retries
    /\ siteResult.ok
    /\ Len(siteResult.sites) > 1
    /\ \A i \in 1..Len(siteResult.sites) : siteResult.sites[i].image_url = None
    /\ ~imgOut.ok

\* ------------------------------------------------- plan_tour: claims

\* the first failed lookup in the order flights, hotels, sightseeing
FirstFailed ==
    IF lookup["flights"] = "err" THEN "flights"
    ELSE IF lookup["hotels"] = "err" THEN "hotels"
    ELSE "site_seeing"

\* C21: the three lookups start only after the IATA lookup succeeded; the
\* join ends only when all three have completed, whether or not one of them
\* failed; the itinerary model is called only if all three succeeded, and
\* otherwise the call returns the error of the first failed lookup in the
\* order flights, hotels, sightseeing without calling the itinerary model.
C21_FanOutFanIn ==
    /\ []((ppos \in {"idle", "iata"} \/ planResult = PlanErr("iata"))
            => \A l \in Lookups : lookup[l] = "unstarted")
    /\ [][(ppos = "joining" /\ ppos' \in {"final", "done"})
            => /\ \A l \in Lookups : lookup[l] \in LookupOutcomes
               /\ lookup' = lookup]_vars
    /\ [](finalCalls > 0 => \A l \in Lookups : lookup[l] = "ok")
    /\ []((ppos \in {"final", "done"} /\ \A l \in Lookups : lookup[l] = "ok")
            => finalCalls = 1)
    /\ []((ppos = "done" /\ \E l \in Lookups : lookup[l] = "err")
            => /\ planResult = PlanErr(FirstFailed)
               /\ finalCalls = 0)

\* sightseeing failed first and hotels failed last while flights succeeded:
\* the call returned the error of hotels
C21_Witness ==
    /\ ppos = "done"
    /\ finished = <<"site_seeing", "flights", "hotels">>
    /\ lookup = [l \in Lookups |-> IF l = "flights" THEN "ok" ELSE "err"]
    /\ planResult = PlanErr("hotels")
    /\ finalCalls = 0

\* ------------------------------------------------- Date: claims

\* C23: Date::new returns Ok exactly when day <= 31 and month <= 12, for
\* every year; when both bounds are violated the error is the day error; and
\* the text of an accepted Date reads back as the same year, month and day.
C23_DateRoundTrip ==
    dpos # "idle" =>
        /\ dNew.ok <=> (dIn.day <= 31 /\ dIn.month <= 12)
        /\ dNew.ok => dNew = DateOk(dIn.year, dIn.month, dIn.day)
        /\ (dIn.day > 31 /\ dIn.month > 12) =>
              dNew = DateErr("Day cannot be more than 31", dIn.day)
        /\ dpos = "parsed" => dParsed = DateOk(dIn.year, dIn.month, dIn.day)

\* year 7, month 0, day 31 was accepted, printed with padding and read back
C23_Witness ==
    /\ dpos = "parsed"
    /\ dIn = [year |-> 7, month |-> 0, day |-> 31]
    /\ dText = <<"0", "0", "0", "7", "-", "0", "0", "-", "3", "1">>
    /\ dParsed.ok

====
